---- MODULE Spec2Model ----
(***************************************************************************)
(* process_file of redact.py, a one-pass filter over the lines of an       *)
(* asciinema cast file, and the command-line driver that calls it.  A      *)
(* text is a sequence of one-character strings; "E" stands for the escape  *)
(* character U+001B.  A timestamp is a finite                              *)
(* float, modelled as an integer count of a fixed time unit that has at    *)
(* most Precision significant bits: a sum or difference of two timestamps  *)
(* is rounded to the nearest such number, ties to even, as float           *)
(* arithmetic rounds it.                                                   *)
(***************************************************************************)
EXTENDS Integers, Sequences, FiniteSets, TLC

\* Lines of an input file whose whole content is kept (first line included).
MaxLines == 4
\* Lines of an input file with non-decreasing timestamps (first line included).
MaxSortedLines == 5
\* Lines of an input file of which only the latest line is kept.
MaxSteps == 5
\* Largest timestamp an input record carries.
MaxTime == 2
\* Lines of an input file with timestamps whose differences are rounded.
MaxFloatLines == 5
\* Lines of an input file over the texts that derive and hold targets.
MaxTextLines == 4
\* Largest len(sys.argv) of an invocation.
MaxArgs == 4
\* Significant bits of a timestamp (53 in a Python float).
Precision == 4

ESC == "E"

Max(a, b) == IF a >= b THEN a ELSE b

Abs(x) == IF x >= 0 THEN x ELSE 0 - x

\* The distance between neighbouring floats of magnitude m, u or larger.
RECURSIVE SpacingFrom(_, _)
SpacingFrom(m, u) == IF m < u * 2^Precision THEN u ELSE SpacingFrom(m, 2 * u)

Spacing(m) == SpacingFrom(m, 1)

\* The float nearest to x, the one with an even significand when two are
\* equally near: the result of a float addition or subtraction whose exact
\* result is x.
Round(x) ==
    LET m == Abs(x)
        u == Spacing(m)
        q == m \div u
        r == m % u
        nearest == IF 2 * r < u \/ (2 * r = u /\ q % 2 = 0) THEN q * u ELSE (q + 1) * u
    IN  IF x >= 0 THEN nearest ELSE 0 - nearest

(***************************************************************************)
(* Texts: substring test, the regular expression, int() and formatting.    *)
(***************************************************************************)
DigitChars == <<"0", "1", "2", "3", "4", "5", "6", "7", "8", "9">>

IsDigit(c) == \E d \in 1..10 : DigitChars[d] = c

DigitVal(c) == (CHOOSE d \in 1..10 : DigitChars[d] = c) - 1

\* pat in text
Contains(pat, text) ==
    \E i \in 1..(Len(text) - Len(pat) + 1) : SubSeq(text, i, i + Len(pat) - 1) = pat

\* The index just after the longest run of digits of text that starts at i.
RECURSIVE DigitRunEnd(_, _)
DigitRunEnd(text, i) ==
    IF i <= Len(text) /\ IsDigit(text[i]) THEN DigitRunEnd(text, i + 1) ELSE i

\* int(s) of a non-empty string of digits
RECURSIVE ParseInt(_)
ParseInt(ds) ==
    IF Len(ds) = 0 THEN 0
    ELSE 10 * ParseInt(SubSeq(ds, 1, Len(ds) - 1)) + DigitVal(ds[Len(ds)])

\* str(n) of a natural number
RECURSIVE FormatNat(_)
FormatNat(n) ==
    IF n < 10 THEN <<DigitChars[n + 1]>>
    ELSE FormatNat(n \div 10) \o <<DigitChars[(n % 10) + 1]>>

\* str(n), as the f-string formats an int
FormatInt(n) == IF n < 0 THEN <<"-">> \o FormatNat(0 - n) ELSE FormatNat(n)

\* ansi_pattern matched at position i of text: ESC [ digits ; digits H
MatchEnd(text, i) ==
    LET r == DigitRunEnd(text, i + 2)
        c == DigitRunEnd(text, r + 1)
    IN  IF /\ i + 1 <= Len(text)
           /\ text[i] = ESC
           /\ text[i + 1] = "["
           /\ r > i + 2
           /\ r <= Len(text)
           /\ text[r] = ";"
           /\ c > r + 1
           /\ c <= Len(text)
           /\ text[c] = "H"
        THEN c
        ELSE 0

\* ansi_pattern.search(text): the leftmost match, or found = FALSE
ansi_search(text) ==
    LET starts == {i \in 1..Len(text) : MatchEnd(text, i) > 0}
    IN  IF starts = {} THEN [found |-> FALSE, row |-> <<>>, col |-> <<>>]
        ELSE LET i == CHOOSE j \in starts : \A k \in starts : j <= k
                 r == DigitRunEnd(text, i + 2)
                 c == DigitRunEnd(text, r + 1)
             IN  [found |-> TRUE,
                  row |-> SubSeq(text, i + 2, r - 1),
                  col |-> SubSeq(text, r + 1, c - 1)]

\* '\u001b[' in text and 'Atuin' in text
HasMarkers(text) ==
    Contains(<<ESC, "[">>, text) /\ Contains(<<"A", "t", "u", "i", "n">>, text)

\* The record begins a skip session when read while not skipping.
IsEntry(text) == HasMarkers(text) /\ ansi_search(text).found

\* The row is converted with int() as the column is.
TargetOf_IntRow(m) ==
    <<ESC, "[">> \o FormatInt(ParseInt(m.row)) \o <<";">> \o FormatInt(ParseInt(m.col) - 1)
        \o <<"H">>

\* f'\u001b[{row};{col-1}H' for the match m
TargetOf(m) ==
    <<ESC, "[">> \o m.row \o <<";">> \o FormatInt(ParseInt(m.col) - 1) \o <<"H">>

\* The timestamp is not clamped to the last one written.
AdjustedTimestamp_NoClamp(current, offset, last) == Round(current - offset)

\* The offset is subtracted after the clamp instead of before it.
AdjustedTimestamp_ClampFirst(current, offset, last) == Round(Max(current, last) - offset)

\* max(current_timestamp - time_offset, last_timestamp)
AdjustedTimestamp(current, offset, last) == Max(Round(current - offset), last)

\* The offset is assigned, not accumulated.
NewOffset_Assigned(offset, current, start) == Round(current - start)

\* The skipped time is taken with the wrong sign.
NewOffset_Swapped(offset, current, start) == Round(offset + Round(start - current))

\* time_offset += (current_timestamp - skip_start_time)
NewOffset(offset, current, start) == Round(offset + Round(current - start))

(***************************************************************************)
(* Lines of the input file.                                                *)
(*   raw      a line json.loads rejects                                    *)
(*   value    JSON that is no list (an object, as the header is)           *)
(*   short    a list whose length is not 3                                 *)
(*   i        a list of length 3 whose second element is not "o"           *)
(*   o        [number, "o", string]                                        *)
(*   o_nots   a list of length 3 with "o" whose first element float()      *)
(*            rejects (null)                                               *)
(*   o_notext a list of length 3 with "o" whose third element supports no  *)
(*            membership test (a number or null)                           *)
(* canon tells whether the bytes of the line are what json.dumps writes    *)
(* for its record with a float timestamp.                                  *)
(***************************************************************************)
Plain == "x"
AtuinAt23 == "E[2;3HAtuin"
GoTo22 == "E[2;2H"
AtuinAt22 == "E[2;2HAtuin"
AtuinFirst == "AtuinE[2;3H"
ColourAtuin == "E[0mAtuin"
NoText == ""
TwoCursors == "E[1;1HAtuinE[2;3H"
BrokenThenCursor == "E[5;HE[2;3HAtuin"
LeadingZeros == "E[02;010HAtuin"
AtuinAt20 == "E[2;0HAtuin"
GoTo10 == "E[1;0H"
Within10 == "xE[1;0Hy"
GoTo110 == "E[11;0H"
GoTo029 == "E[02;9H"
GoTo29 == "E[2;9H"
GoTo0209 == "E[02;09H"
GoToMinus1 == "E[2;-1H"

\* The characters of each text a line may carry.
Chars(text) ==
    CASE text = Plain -> <<"x">>
      [] text = AtuinAt23 -> <<ESC, "[", "2", ";", "3", "H", "A", "t", "u", "i", "n">>
      [] text = GoTo22 -> <<ESC, "[", "2", ";", "2", "H">>
      [] text = AtuinAt22 -> <<ESC, "[", "2", ";", "2", "H", "A", "t", "u", "i", "n">>
      [] text = AtuinFirst -> <<"A", "t", "u", "i", "n", ESC, "[", "2", ";", "3", "H">>
      [] text = ColourAtuin -> <<ESC, "[", "0", "m", "A", "t", "u", "i", "n">>
      [] text = TwoCursors ->
            <<ESC, "[", "1", ";", "1", "H", "A", "t", "u", "i", "n", ESC, "[", "2", ";", "3", "H">>
      [] text = BrokenThenCursor ->
            <<ESC, "[", "5", ";", "H", ESC, "[", "2", ";", "3", "H", "A", "t", "u", "i", "n">>
      [] text = LeadingZeros ->
            <<ESC, "[", "0", "2", ";", "0", "1", "0", "H", "A", "t", "u", "i", "n">>
      [] text = AtuinAt20 ->
            <<ESC, "[", "2", ";", "0", "H", "A", "t", "u", "i", "n">>
      [] text = GoTo10 ->
            <<ESC, "[", "1", ";", "0", "H">>
      [] text = Within10 ->
            <<"x", ESC, "[", "1", ";", "0", "H", "y">>
      [] text = GoTo110 ->
            <<ESC, "[", "1", "1", ";", "0", "H">>
      [] text = GoTo029 ->
            <<ESC, "[", "0", "2", ";", "9", "H">>
      [] text = GoTo29 ->
            <<ESC, "[", "2", ";", "9", "H">>
      [] text = GoTo0209 ->
            <<ESC, "[", "0", "2", ";", "0", "9", "H">>
      [] text = GoToMinus1 ->
            <<ESC, "[", "2", ";", "-", "1", "H">>
      [] OTHER -> <<>>

Texts == {Plain, AtuinAt23, GoTo22, AtuinAt22, AtuinFirst, ColourAtuin}

CoreTexts == {Plain, AtuinAt23, GoTo22, AtuinAt22}

\* Texts with two cursor-position sequences, a broken one, leading zeros and
\* column 0, and texts that hold or nearly hold the targets derived from them.
TargetTexts ==
    {TwoCursors, BrokenThenCursor, LeadingZeros, AtuinAt20, GoTo22, GoTo10, Within10,
     GoTo110, GoTo029, GoTo29, GoTo0209, GoToMinus1}

Times == (0 - 1)..MaxTime

\* Timestamps with a difference that is no float: (2^Precision + 2) - 1.
FloatTimes == {1, 3, 2^Precision + 2}

SortedTimes == {0, 1, 2, 2^Precision + 2}

CoreTimes == 0..MaxTime

Line(k, t, x, c) == [kind |-> k, ts |-> t, text |-> x, canon |-> c]

PassThroughLines ==
    {Line("raw", 0, NoText, FALSE), Line("value", 0, NoText, FALSE),
     Line("short", 0, NoText, FALSE)}
    \cup {Line("i", t, Plain, FALSE) : t \in Times}

IllTypedLines ==
    {Line("o_nots", 0, Plain, FALSE)} \cup {Line("o_notext", t, NoText, FALSE) : t \in Times}

Lines ==
    {Line("o", t, x, c) : t \in Times, x \in Texts, c \in BOOLEAN}
    \cup PassThroughLines \cup IllTypedLines

CoreLines ==
    {Line("o", t, x, TRUE) : t \in CoreTimes, x \in CoreTexts}
    \cup {Line("o", 0 - 1, Plain, FALSE)}
    \cup {Line("raw", 0, NoText, FALSE), Line("i", MaxTime, Plain, FALSE)}
    \cup {Line("o_nots", 0, Plain, FALSE), Line("o_notext", MaxTime, NoText, FALSE)}

SortedLines ==
    {Line("o", t, x, TRUE) : t \in SortedTimes, x \in {Plain, AtuinAt23, GoTo22}}
    \cup {Line("raw", 0, NoText, FALSE), Line("i", 0, Plain, FALSE)}
    \cup {Line("o_notext", 2^Precision + 2, NoText, FALSE)}

TextLines ==
    {Line("o", 0, x, TRUE) : x \in TargetTexts}
    \cup {Line("raw", 0, NoText, FALSE), Line("i", 0, GoTo10, FALSE)}
    \cup {Line("o_notext", 0, NoText, FALSE)}

FloatLines ==
    {Line("o", t, x, TRUE) : t \in FloatTimes, x \in {Plain, AtuinAt23, GoTo22}}
    \cup {Line("raw", 0, NoText, FALSE), Line("i", 3, Plain, FALSE)}
    \cup {Line("o_nots", 0, Plain, FALSE)}

CoreHeaders == {Line("value", 0, NoText, FALSE), Line("o", MaxTime, AtuinAt23, FALSE)}

\* json.loads(line) raises JSONDecodeError
JSONDecodeError(line) == line.kind = "raw"

\* The second element is not compared with "o".
IsORecord_AnyTriple(line) == line.kind \in {"i", "o", "o_nots", "o_notext"}

\* isinstance(record, list) and len(record) == 3 and record[1] == "o"
IsORecord(line) == line.kind \in {"o", "o_nots", "o_notext"}

\* float(record[0]) raises
FloatRaises(line) == line.kind = "o_nots"

\* a membership test on record[2] raises
TextRaises(line) == line.kind = "o_notext"

\* json.dumps(record) + '\n' after record[0] = adjusted
Dumps(line, adjusted) == Line("o", adjusted, line.text, TRUE)

(***************************************************************************)
(* State                                                                   *)
(***************************************************************************)
VARIABLES
    argv_len,         \* len(sys.argv)
    input_exists,     \* os.path.exists(input_file)
    main_pc,          \* the driver: "start", "called" (in process_file), "exited"
    exit_status,      \* <<>> while the process runs, <<n>> once it has exited
    stdout,           \* the messages printed: "usage", "error", "processed"
    output_opened,    \* the output file has been opened for writing (created or truncated)
    feed,             \* the input files considered: "any", "sorted", "float", "texts" or "window"
    nread,            \* number of lines read
    infile,           \* the lines read so far ("window": the latest line only)
    outfile,          \* the lines written so far ("window": by the latest iteration)
    origin,           \* for each line of outfile, the number of the line read when it was written
    pc,               \* "idle" (not called), "loop", "done" (returned), "raised" (exception
                      \* left process_file)
    is_first_line,
    skip_mode,
    target_pattern,   \* <<>> is None
    skip_start_time,  \* <<>> while unbound, <<t>> once assigned
    last_timestamp,
    time_offset,
    at_entry          \* <<>>, or during a skip session the timestamp and text of its entry
                      \* record and the values of time_offset and last_timestamp at entry

driver == <<argv_len, input_exists, main_pc, exit_status, stdout>>

vars == <<driver, output_opened, feed, nread, infile, outfile, origin, pc, is_first_line, skip_mode, target_pattern,
          skip_start_time, last_timestamp, time_offset, at_entry>>

scan == <<skip_mode, target_pattern, skip_start_time, last_timestamp, time_offset>>

\* lines 18-23: the local variables of process_file
Locals ==
    /\ nread = 0
    /\ infile = <<>>
    /\ outfile = <<>>
    /\ origin = <<>>
    /\ is_first_line = TRUE
    /\ skip_mode = FALSE
    /\ target_pattern = <<>>
    /\ skip_start_time = <<>>
    /\ last_timestamp = 0
    /\ time_offset = 0
    /\ at_entry = <<>>

\* lines 18-25: process_file has been called with an input file that opens
Start ==
    /\ argv_len = 3
    /\ input_exists = TRUE
    /\ main_pc = "called"
    /\ exit_status = <<>>
    /\ stdout = <<>>
    /\ output_opened = TRUE
    /\ pc = "loop"
    /\ Locals

\* line 82: the script is started with any arguments
InitMain ==
    /\ feed = "any"
    /\ argv_len \in 1..MaxArgs
    /\ input_exists \in BOOLEAN
    /\ main_pc = "start"
    /\ exit_status = <<>>
    /\ stdout = <<>>
    /\ output_opened = FALSE
    /\ pc = "idle"
    /\ Locals

Init == feed = "any" /\ Start

InitSorted == feed = "sorted" /\ Start

InitWindow == feed = "window" /\ Start

InitFloat == feed = "float" /\ Start

InitTexts == feed = "texts" /\ Start

\* The timestamps of the "o" lines after the first line of a file.
OTimes(file) == {file[k].ts : k \in {j \in 2..Len(file) : file[j].kind \in {"o", "o_notext"}}}

\* The lines an input file of the feed may have next.
NextLines ==
    CASE feed = "any" ->
            IF nread >= MaxLines THEN {}
            ELSE IF nread = 0 THEN CoreHeaders ELSE CoreLines
      [] feed = "sorted" ->
            IF nread >= MaxSortedLines THEN {}
            ELSE IF nread = 0 THEN CoreHeaders
            ELSE {l \in SortedLines :
                    l.kind \in {"o", "o_notext"} => \A t \in OTimes(infile) : t <= l.ts}
      [] feed = "float" ->
            IF nread >= MaxFloatLines THEN {}
            ELSE IF nread = 0 THEN {Line("value", 0, NoText, FALSE)} ELSE FloatLines
      [] feed = "texts" ->
            IF nread >= MaxTextLines THEN {}
            ELSE IF nread = 0 THEN {Line("value", 0, NoText, FALSE)} ELSE TextLines
      [] OTHER ->
            IF nread >= MaxSteps THEN {} ELSE Lines

\* for line in infile: the next line of the file is read
Read(line) ==
    /\ pc = "loop"
    /\ nread' = nread + 1
    /\ infile' = IF feed = "window" THEN <<line>> ELSE Append(infile, line)
    /\ UNCHANGED <<feed, driver, output_opened>>

\* outfile.write, or no write in this iteration
Write(ws) ==
    /\ outfile' = IF feed = "window" THEN ws ELSE outfile \o ws
    /\ origin' = IF feed = "window" THEN [k \in 1..Len(ws) |-> nread + 1]
                 ELSE origin \o [k \in 1..Len(ws) |-> nread + 1]

\* The first line is parsed and handled as a record is.
FirstLine_AsRecord(line) ==
    /\ Read(line)
    /\ is_first_line
    /\ is_first_line' = FALSE
    /\ IF line.kind = "o"
       THEN LET adjusted_timestamp ==
                    AdjustedTimestamp(line.ts, time_offset, last_timestamp)
            IN  /\ last_timestamp' = adjusted_timestamp
                /\ Write(<<Dumps(line, adjusted_timestamp)>>)
       ELSE /\ Write(<<line>>)
            /\ UNCHANGED last_timestamp
    /\ UNCHANGED <<pc, skip_mode, target_pattern, skip_start_time, time_offset, at_entry>>

\* lines 28-31
FirstLine(line) ==
    /\ Read(line)
    /\ is_first_line
    /\ Write(<<line>>)
    /\ is_first_line' = FALSE
    /\ UNCHANGED <<pc, scan, at_entry>>

\* lines 35, 78-80
Unparseable(line) ==
    /\ Read(line)
    /\ ~is_first_line
    /\ JSONDecodeError(line)
    /\ Write(<<line>>)
    /\ UNCHANGED <<pc, is_first_line, scan, at_entry>>

\* lines 36-39
NotARecord(line) ==
    /\ Read(line)
    /\ ~is_first_line
    /\ ~JSONDecodeError(line)
    /\ ~IsORecord(line)
    /\ Write(<<line>>)
    /\ UNCHANGED <<pc, is_first_line, scan, at_entry>>

\* lines 41, 46, 66: an exception other than JSONDecodeError leaves the loop
Raise(line) ==
    /\ Read(line)
    /\ ~is_first_line
    /\ IsORecord(line)
    /\ FloatRaises(line) \/ TextRaises(line)
    /\ pc' = "raised"
    /\ Write(<<>>)
    /\ UNCHANGED <<is_first_line, scan, at_entry>>

\* The entry record moves last_timestamp as a written record does.
EnterSkip_MovesTimeline(line) ==
    /\ Read(line)
    /\ ~is_first_line
    /\ IsORecord(line) /\ ~FloatRaises(line) /\ ~TextRaises(line)
    /\ ~skip_mode
    /\ IsEntry(Chars(line.text))
    /\ target_pattern' = TargetOf(ansi_search(Chars(line.text)))
    /\ skip_mode' = TRUE
    /\ skip_start_time' = <<line.ts>>
    /\ last_timestamp' = AdjustedTimestamp(line.ts, time_offset, last_timestamp)
    /\ Write(<<>>)
    /\ at_entry' = [ts |-> line.ts, text |-> line.text, offset |-> time_offset, last |-> last_timestamp]
    /\ UNCHANGED <<pc, is_first_line, time_offset>>

\* lines 45-56
EnterSkip(line) ==
    /\ Read(line)
    /\ ~is_first_line
    /\ IsORecord(line) /\ ~FloatRaises(line) /\ ~TextRaises(line)
    /\ ~skip_mode
    /\ IsEntry(Chars(line.text))
    /\ target_pattern' = TargetOf(ansi_search(Chars(line.text)))
    /\ skip_mode' = TRUE
    /\ skip_start_time' = <<line.ts>>
    /\ Write(<<>>)
    /\ at_entry' = [ts |-> line.ts, text |-> line.text, offset |-> time_offset, last |-> last_timestamp]
    /\ UNCHANGED <<pc, is_first_line, last_timestamp, time_offset>>

\* lines 45-48, 58-62
WriteRecord(line) ==
    /\ Read(line)
    /\ ~is_first_line
    /\ IsORecord(line) /\ ~FloatRaises(line) /\ ~TextRaises(line)
    /\ ~skip_mode
    /\ ~IsEntry(Chars(line.text))
    /\ LET adjusted_timestamp == AdjustedTimestamp(line.ts, time_offset, last_timestamp)
       IN  /\ last_timestamp' = adjusted_timestamp
           /\ Write(<<Dumps(line, adjusted_timestamp)>>)
    /\ UNCHANGED <<pc, is_first_line, skip_mode, target_pattern, skip_start_time,
                   time_offset, at_entry>>

\* An exit record with a cursor-position sequence and "Atuin" begins the
\* next session at once.
ExitSkip_Reenters(line) ==
    /\ Read(line)
    /\ ~is_first_line
    /\ IsORecord(line) /\ ~FloatRaises(line) /\ ~TextRaises(line)
    /\ skip_mode
    /\ Contains(target_pattern, Chars(line.text))
    /\ time_offset' = NewOffset(time_offset, line.ts, skip_start_time[1])
    /\ IF IsEntry(Chars(line.text))
       THEN /\ target_pattern' = TargetOf(ansi_search(Chars(line.text)))
            /\ skip_start_time' = <<line.ts>>
            /\ at_entry' = [ts |-> line.ts, text |-> line.text, offset |-> time_offset',
                            last |-> last_timestamp]
            /\ Write(<<>>)
            /\ UNCHANGED <<skip_mode, last_timestamp>>
       ELSE /\ skip_mode' = FALSE
            /\ at_entry' = <<>>
            /\ LET adjusted_timestamp ==
                        AdjustedTimestamp(line.ts, time_offset', last_timestamp)
               IN  /\ last_timestamp' = adjusted_timestamp
                   /\ Write(<<Dumps(line, adjusted_timestamp)>>)
            /\ UNCHANGED <<target_pattern, skip_start_time>>
    /\ UNCHANGED <<pc, is_first_line>>

\* lines 65-75
ExitSkip(line) ==
    /\ Read(line)
    /\ ~is_first_line
    /\ IsORecord(line) /\ ~FloatRaises(line) /\ ~TextRaises(line)
    /\ skip_mode
    /\ Contains(target_pattern, Chars(line.text))
    /\ skip_mode' = FALSE
    /\ time_offset' = NewOffset(time_offset, line.ts, skip_start_time[1])
    /\ LET adjusted_timestamp == AdjustedTimestamp(line.ts, time_offset', last_timestamp)
       IN  /\ last_timestamp' = adjusted_timestamp
           /\ Write(<<Dumps(line, adjusted_timestamp)>>)
    /\ at_entry' = <<>>
    /\ UNCHANGED <<pc, is_first_line, target_pattern, skip_start_time>>

\* A record with a cursor-position sequence and "Atuin" met in a session
\* begins a session of its own.
DropRecord_Nests(line) ==
    /\ Read(line)
    /\ ~is_first_line
    /\ IsORecord(line) /\ ~FloatRaises(line) /\ ~TextRaises(line)
    /\ skip_mode
    /\ ~Contains(target_pattern, Chars(line.text))
    /\ Write(<<>>)
    /\ IF IsEntry(Chars(line.text))
       THEN /\ target_pattern' = TargetOf(ansi_search(Chars(line.text)))
            /\ skip_start_time' = <<line.ts>>
            /\ at_entry' = [ts |-> line.ts, text |-> line.text, offset |-> time_offset,
                            last |-> last_timestamp]
            /\ UNCHANGED <<skip_mode, last_timestamp, time_offset>>
       ELSE UNCHANGED <<scan, at_entry>>
    /\ UNCHANGED <<pc, is_first_line>>

\* lines 65-66, 76
DropRecord(line) ==
    /\ Read(line)
    /\ ~is_first_line
    /\ IsORecord(line) /\ ~FloatRaises(line) /\ ~TextRaises(line)
    /\ skip_mode
    /\ ~Contains(target_pattern, Chars(line.text))
    /\ Write(<<>>)
    /\ UNCHANGED <<pc, is_first_line, scan, at_entry>>

\* the file has no further line: the loop ends and process_file returns
EndOfInput ==
    /\ pc = "loop"
    /\ pc' = "done"
    /\ UNCHANGED <<driver, output_opened>>
    /\ UNCHANGED <<feed, nread, infile, outfile, origin, is_first_line, scan, at_entry>>

process_file_vars ==
    <<feed, nread, infile, outfile, origin, is_first_line, scan, at_entry>>

\* Any number of arguments but the script name alone is accepted.
ArgsOK_AtLeast(n) == n >= 3

\* line 83: len(sys.argv) != 3 is false
ArgsOK(n) == n = 3

\* lines 83-85
UsageError ==
    /\ main_pc = "start"
    /\ ~ArgsOK(argv_len)
    /\ stdout' = Append(stdout, "usage")
    /\ exit_status' = <<1>>
    /\ main_pc' = "exited"
    /\ UNCHANGED <<argv_len, input_exists, output_opened, pc, process_file_vars>>

\* lines 90-92
MissingInput ==
    /\ main_pc = "start"
    /\ ArgsOK(argv_len)
    /\ ~input_exists
    /\ stdout' = Append(stdout, "error")
    /\ exit_status' = <<1>>
    /\ main_pc' = "exited"
    /\ UNCHANGED <<argv_len, input_exists, output_opened, pc, process_file_vars>>

\* lines 94, 25: process_file is called and opens both files
CallProcessFile ==
    /\ main_pc = "start"
    /\ ArgsOK(argv_len)
    /\ input_exists
    /\ main_pc' = "called"
    /\ pc' = "loop"
    /\ output_opened' = TRUE
    /\ UNCHANGED <<argv_len, input_exists, exit_status, stdout, process_file_vars>>

\* lines 94, 25: the input file exists but open() raises for it (a directory,
\* no permission); the output file is not opened and the exception ends the
\* process
OpenRaises ==
    /\ main_pc = "start"
    /\ ArgsOK(argv_len)
    /\ input_exists
    /\ main_pc' = "exited"
    /\ exit_status' = <<1>>
    /\ pc' = "raised"
    /\ UNCHANGED <<argv_len, input_exists, stdout, output_opened, process_file_vars>>

\* line 95: process_file has returned; the script ends with status 0
Processed ==
    /\ main_pc = "called"
    /\ pc = "done"
    /\ stdout' = Append(stdout, "processed")
    /\ exit_status' = <<0>>
    /\ main_pc' = "exited"
    /\ UNCHANGED <<argv_len, input_exists, output_opened, pc, process_file_vars>>

\* line 94: an exception left process_file; nothing catches it and the
\* interpreter exits with status 1
Uncaught ==
    /\ main_pc = "called"
    /\ pc = "raised"
    /\ exit_status' = <<1>>
    /\ main_pc' = "exited"
    /\ UNCHANGED <<argv_len, input_exists, stdout, output_opened, pc, process_file_vars>>

Next ==
    \/ \E line \in NextLines : FirstLine(line)
    \/ \E line \in NextLines : Unparseable(line)
    \/ \E line \in NextLines : NotARecord(line)
    \/ \E line \in NextLines : Raise(line)
    \/ \E line \in NextLines : EnterSkip(line)
    \/ \E line \in NextLines : WriteRecord(line)
    \/ \E line \in NextLines : ExitSkip(line)
    \/ \E line \in NextLines : DropRecord(line)
    \/ EndOfInput

\* lines 82-95
NextMain ==
    \/ UsageError
    \/ MissingInput
    \/ CallProcessFile
    \/ OpenRaises
    \/ Processed
    \/ Uncaught
    \/ Next

\* every input file of a few lines, its whole content kept
Spec == Init /\ [][Next]_vars

\* the script run from the command line on such files
SpecMain == InitMain /\ [][NextMain]_vars

\* longer input files whose "o" timestamps are non-negative and non-decreasing
SpecSorted == InitSorted /\ [][Next]_vars

\* longer input files with timestamps in any order whose differences are rounded
SpecFloat == InitFloat /\ [][Next]_vars

\* input files over texts with several, broken and zero-padded cursor-position sequences
SpecTexts == InitTexts /\ [][Next]_vars

\* longer input files over every kind of line, one line at a time
SpecWindow == InitWindow /\ [][Next]_vars

TypeOK ==
    /\ pc \in {"idle", "loop", "done", "raised"}
    /\ skip_mode \in BOOLEAN
    /\ Len(outfile) <= Len(infile)
    /\ Len(origin) = Len(outfile)

(***************************************************************************)
(* process_file as a function of the whole list of lines, used to run the  *)
(* filter a second time on a file the first run wrote.                     *)
(***************************************************************************)
\* lines 18-23
Fresh ==
    [first |-> TRUE, skip |-> FALSE, target |-> <<>>, start |-> <<>>,
     last |-> 0, offset |-> 0, out |-> <<>>, raised |-> FALSE]

\* lines 26-80: one iteration of the loop from the scan state s
ProcessLine(s, line) ==
    IF s.first THEN [s EXCEPT !.first = FALSE, !.out = Append(s.out, line)]
    ELSE IF JSONDecodeError(line) \/ ~IsORecord(line)
    THEN [s EXCEPT !.out = Append(s.out, line)]
    ELSE IF FloatRaises(line) \/ TextRaises(line) THEN [s EXCEPT !.raised = TRUE]
    ELSE IF ~s.skip
    THEN IF IsEntry(Chars(line.text))
         THEN [s EXCEPT !.target = TargetOf(ansi_search(Chars(line.text))),
                        !.skip = TRUE, !.start = <<line.ts>>]
         ELSE LET adjusted_timestamp == AdjustedTimestamp(line.ts, s.offset, s.last)
              IN  [s EXCEPT !.last = adjusted_timestamp,
                            !.out = Append(s.out, Dumps(line, adjusted_timestamp))]
    ELSE IF Contains(s.target, Chars(line.text))
         THEN LET offset == NewOffset(s.offset, line.ts, s.start[1])
                  adjusted_timestamp == AdjustedTimestamp(line.ts, offset, s.last)
              IN  [s EXCEPT !.skip = FALSE, !.offset = offset,
                            !.last = adjusted_timestamp,
                            !.out = Append(s.out, Dumps(line, adjusted_timestamp))]
         ELSE s

\* lines 25-80: the scan state after the first n lines of a file
RECURSIVE ProcessFile(_, _)
ProcessFile(lines, n) ==
    IF n = 0 THEN Fresh
    ELSE LET s == ProcessFile(lines, n - 1)
         IN  IF s.raised THEN s ELSE ProcessLine(s, lines[n])

\* The lines process_file writes for a file.
Output(lines) == ProcessFile(lines, Len(lines)).out

\* The step-by-step run and the function agree on every file read whole.
RunIsProcessFile ==
    (feed # "window" /\ output_opened) =>
        LET s == ProcessFile(infile, Len(infile))
        IN  /\ s.out = outfile
            /\ s.raised = (pc = "raised")
            /\ s.skip = skip_mode
            /\ s.target = target_pattern
            /\ s.start = skip_start_time
            /\ s.last = last_timestamp
            /\ s.offset = time_offset
(***************************************************************************)
(* Properties                                                              *)
(***************************************************************************)
Range(f) == {f[k] : k \in DOMAIN f}

\* A 3-element array whose second element is "o".
IsOArray(line) == line.kind \in {"o", "o_nots", "o_notext"}

\* A text with a cursor-position sequence ESC[R;CH and "Atuin".
HasCursorAndAtuin(text) ==
    /\ \E i \in 1..Len(text) : MatchEnd(text, i) > 0
    /\ Contains(<<"A", "t", "u", "i", "n">>, text)

\* The positions in the written file of the "o" records the filter emitted
\* (the first line is the header, whatever it holds).
Emitted == {k \in 2..Len(outfile) : outfile[k].kind = "o"}

\* C1: the timestamps of the "o" records written are non-decreasing in
\* output order, for every input.
C1_EmittedNonDecreasing ==
    \A j, k \in Emitted : j < k => outfile[j].ts <= outfile[k].ts

\* Two records were written after a skip session removed time, from an
\* input whose second record is earlier than the exit record before it.
C1_Witness ==
    /\ feed = "any"
    /\ Cardinality(Emitted) >= 2
    /\ time_offset > 0
    /\ \E j, k \in 2..Len(infile) :
          /\ j < k
          /\ infile[j].kind = "o" /\ infile[k].kind = "o"
          /\ infile[k].ts < infile[j].ts
          /\ k \in Range(origin) /\ j \in Range(origin)

(***************************************************************************)
(* The skip sessions of a file, read off its lines: a session is entered   *)
(* at an "o" record with a cursor-position sequence and "Atuin" met while  *)
(* no session is open, and is left at the first later "o" record whose     *)
(* text contains ESC[R;(C-1)H.  removed is the sum of (t1 - t0) over the   *)
(* sessions left within the first n lines.  exact tells that every         *)
(* t1 - t0, every sum of them so far, and the timestamp less the sum of    *)
(* every "o" record outside the sessions, is a float.                      *)
(***************************************************************************)
IsFloat(x) == Round(x) = x

RECURSIVE Sessions(_, _)
Sessions(file, n) ==
    IF n <= 1
    THEN [open |-> FALSE, entry |-> 0, target |-> <<>>, closed |-> {}, removed |-> 0,
          exact |-> TRUE]
    ELSE LET S == Sessions(file, n - 1)
             l == file[n]
         IN  IF l.kind # "o" THEN S
             ELSE IF S.open
             THEN IF Contains(S.target, Chars(l.text))
                  THEN LET d == l.ts - file[S.entry].ts
                       IN  [S EXCEPT !.open = FALSE,
                                     !.closed = @ \cup {[entry |-> S.entry, exit |-> n]},
                                     !.removed = @ + d,
                                     !.exact = /\ @
                                               /\ IsFloat(d)
                                               /\ IsFloat(S.removed + d)
                                               /\ IsFloat(l.ts - (S.removed + d))]
                  ELSE S
             ELSE IF HasCursorAndAtuin(Chars(l.text))
                  THEN [S EXCEPT !.open = TRUE, !.entry = n,
                                 !.target = TargetOf(ansi_search(Chars(l.text)))]
                  ELSE [S EXCEPT !.exact = @ /\ IsFloat(l.ts - S.removed)]

\* The "o" timestamps of the file are non-negative and non-decreasing.
SortedNonNegative(file) ==
    \A j, k \in 2..Len(file) :
        (IsOArray(file[j]) /\ IsOArray(file[k]) /\ j <= k) =>
            (0 <= file[j].ts /\ file[j].ts <= file[k].ts)

\* What C2 says of the file read and the file written.
SessionRemoved ==
        LET S == Sessions(infile, Len(infile))
        IN  /\ \A c \in S.closed :
                  /\ \A j \in c.entry..(c.exit - 1) :
                        IsOArray(infile[j]) => j \notin Range(origin)
                  /\ c.exit \in Range(origin)
            /\ S.open =>
                  \A j \in S.entry..Len(infile) :
                      IsOArray(infile[j]) => j \notin Range(origin)
            /\ \A k \in Emitted :
                  /\ infile[origin[k]].kind = "o"
                  /\ outfile[k].ts =
                        infile[origin[k]].ts - Sessions(infile, origin[k]).removed

\* No operation on the timestamps of the file is rounded.
ExactSums(file) == Sessions(file, Len(file)).exact

MaxOf(S) == CHOOSE m \in S : \A x \in S : x <= m

\* No "o" record of the file has a cursor-position sequence and "Atuin".
NoEntryRecord(file) ==
    \A j \in 2..Len(file) :
        IsOArray(file[j]) => ~HasCursorAndAtuin(Chars(file[j].text))

\* The "o" timestamps of the file are non-decreasing.
NonDecreasing(file) ==
    \A j, k \in 2..Len(file) :
        (IsOArray(file[j]) /\ IsOArray(file[k]) /\ j <= k) => file[j].ts <= file[k].ts

\* C3: without any entry record in the input no line is dropped, every
\* other line is written unchanged, each "o" record is written with
\* max(t, largest timestamp written so far, starting from 0), and so a
\* record of an input with non-decreasing timestamps is written as it is.
C3_NoMarkerNoChange ==
    NoEntryRecord(infile) =>
        /\ Len(outfile) = Len(infile)
        /\ \A k \in 1..Len(outfile) :
              /\ origin[k] = k
              /\ ~IsOArray(infile[k]) => outfile[k] = infile[k]
              /\ (k >= 2 /\ IsOArray(infile[k])) =>
                    /\ outfile[k].kind = "o"
                    /\ outfile[k].text = infile[k].text
                    /\ outfile[k].ts =
                          MaxOf({0, infile[k].ts}
                                \cup {outfile[j].ts : j \in {i \in Emitted : i < k}})
        /\ NonDecreasing(infile) =>
              \A k \in 2..Len(outfile) :
                  IsOArray(infile[k]) => outfile[k].ts = infile[k].ts

\* C4 as claimed: the filter run on the file a run wrote writes that file
\* again, for every input.
C4_RerunIdentical == feed = "any" => Output(outfile) = outfile

\* C4: when no "o" record written after the first line has a
\* cursor-position sequence and "Atuin", the filter run on the written
\* file writes that file again.
C4_RerunIdenticalWithoutMarkers ==
    (feed = "any" /\ NoEntryRecord(outfile)) => Output(outfile) = outfile

\* A run that left a skip session and changed a timestamp wrote a file
\* without markers, and the second run wrote it again.
C4_Witness ==
    /\ feed = "any"
    /\ time_offset > 0
    /\ Cardinality(Emitted) >= 2
    /\ \E k \in Emitted : outfile[k].ts # infile[origin[k]].ts
    /\ NoEntryRecord(outfile)
    /\ Output(outfile) = outfile

\* A line that fails to parse, or parses to anything but a 3-element array
\* whose second element is "o".
IsPassThroughLine(line) == line.kind \in {"raw", "value", "short", "i"}

\* C5: a pass-through line is written verbatim in every state, a skip
\* session included, and changes none of skip_mode, target_pattern,
\* skip_start_time, last_timestamp and time_offset.
C5_PassThroughFrame ==
    [][(nread' = nread + 1 /\ IsPassThroughLine(infile'[Len(infile')])) =>
           /\ outfile' = (IF feed = "window" THEN <<>> ELSE outfile)
                            \o <<infile'[Len(infile')]>>
           /\ scan' = scan
           /\ pc' = pc]_vars

\* A pass-through line was written during a skip session.
C5_Witness ==
    /\ feed = "window"
    /\ skip_mode
    /\ Len(infile) = 1 /\ IsPassThroughLine(infile[1])
    /\ outfile = infile

\* C6: no line makes process_file raise to its caller.
C6_NeverRaises == pc # "raised"

\* The positions in the written file of the records with a timestamp.
Timestamped == {k \in 2..Len(outfile) : outfile[k].kind \in {"o", "i"}}

\* C7: the timestamps of all written records that carry one, the records
\* of other kinds included, are non-decreasing.
C7_AllTimestampsNonDecreasing ==
    \A j, k \in Timestamped : j < k => outfile[j].ts <= outfile[k].ts

\* Line j of the file is the entry record of a skip session or lies in one
\* before its exit record.
InSession(file, j) ==
    LET S == Sessions(file, Len(file))
    IN  \/ \E c \in S.closed : c.entry <= j /\ j < c.exit
        \/ S.open /\ S.entry <= j

\* C8: the written lines are input lines in their input order, verbatim or
\* with only the timestamp of an "o" record replaced, none twice, and the
\* only input lines not written are "o" records of a skip session.
C8_OrderPreservingSubsequence ==
    feed # "window" =>
        /\ \A j, k \in 1..Len(origin) : j < k => origin[j] < origin[k]
        /\ \A k \in 1..Len(outfile) :
              /\ origin[k] \in 1..Len(infile)
              /\ \/ outfile[k] = infile[origin[k]]
                 \/ /\ infile[origin[k]].kind = "o"
                    /\ outfile[k].kind = "o"
                    /\ outfile[k].text = infile[origin[k]].text
        /\ \A j \in 1..Len(infile) :
              j \notin Range(origin) => (IsOArray(infile[j]) /\ InSession(infile, j))

\* C9 as claimed: last_timestamp and time_offset start at zero and neither
\* ever decreases, for every input.
C9_BothNonDecreasing ==
    /\ last_timestamp = 0 /\ time_offset = 0
    /\ [][last_timestamp' >= last_timestamp /\ time_offset' >= time_offset]_vars

\* C9: both start at zero; last_timestamp never decreases; time_offset
\* decreases only at an exit record whose timestamp is smaller than the
\* timestamp of the entry record of its session.
C9_NonDecreasingUnlessExitBeforeEntry ==
    /\ last_timestamp = 0 /\ time_offset = 0
    /\ [][/\ last_timestamp' >= last_timestamp
          /\ time_offset' < time_offset =>
                /\ skip_mode /\ ~skip_mode'
                /\ infile'[Len(infile')].ts < skip_start_time[1]]_vars

\* Two skip sessions were left and both values grew.
C9_Witness ==
    /\ feed = "window"
    /\ time_offset >= 2
    /\ last_timestamp >= 1
    /\ ~skip_mode
    /\ skip_start_time # <<>> /\ skip_start_time[1] >= 1

\* C10: the first line is written unchanged as the first output line, also
\* when it is an "o" record with a cursor-position sequence and "Atuin",
\* and leaves the scan state as it was set up.
C10_FirstLineVerbatim ==
    /\ nread >= 1 =>
          /\ ~is_first_line
          /\ feed # "window" => (outfile # <<>> /\ outfile[1] = infile[1] /\ origin[1] = 1)
    /\ nread = 1 =>
          /\ outfile = infile
          /\ pc # "raised"
          /\ ~skip_mode
          /\ target_pattern = <<>>
          /\ skip_start_time = <<>>
          /\ last_timestamp = 0
          /\ time_offset = 0

\* The first line was an "o" record with a cursor-position sequence and
\* "Atuin", not in the form json.dumps writes, and was written as it is.
C10_Witness ==
    /\ nread = 1
    /\ infile[1].kind = "o"
    /\ HasCursorAndAtuin(Chars(infile[1].text))
    /\ infile[1].ts > 0
    /\ ~infile[1].canon
    /\ outfile = infile

\* The line read by the step, and what the step wrote.
LineRead == infile[Len(infile)]

\* The step reads one line after the first.
ReadsRecord == nread >= 1 /\ nread' = nread + 1

\* The lines the step wrote.
Written == IF feed = "window" THEN outfile' ELSE SubSeq(outfile', Len(outfile) + 1, Len(outfile'))

\* C12 as claimed: the timestamp written for the exit record of a skip
\* session is max(t_entry - time_offset at entry, last_timestamp at entry),
\* what the entry record would have been written with, for every input.
C12_ExitWrittenAtEntryTime ==
    [][(ReadsRecord /\ skip_mode /\ ~skip_mode') =>
           /\ Len(Written) = 1
           /\ Written[1].kind = "o"
           /\ Written[1].ts =
                 Max(Round(at_entry.ts - at_entry.offset), at_entry.last)]_vars

\* The three operations on the exit record with timestamp t, t -
\* skip_start_time, time_offset + (t - skip_start_time) and t - time_offset,
\* have floats as their exact results.
ExactExit(t) ==
    LET d == t - skip_start_time[1]
    IN  IsFloat(d) /\ IsFloat(time_offset + d) /\ IsFloat(t - (time_offset + d))

\* C12: the timestamp written for the exit record of a skip session is
\* max(t_entry - time_offset at entry, last_timestamp at entry) whenever
\* none of the three operations on the exit record is rounded.
C12_ExitWrittenAtEntryTimeWhenExact ==
    [][(ReadsRecord /\ skip_mode /\ ~skip_mode' /\ ExactExit(LineRead'.ts)) =>
           /\ Len(Written) = 1
           /\ Written[1].kind = "o"
           /\ Written[1].ts =
                 Max(Round(at_entry.ts - at_entry.offset), at_entry.last)]_vars

\* The exit record of a second session, begun when time_offset was not
\* zero, was written without rounding, with a timestamp other than its own.
C12_Witness ==
    /\ feed = "float"
    /\ ~skip_mode
    /\ LET S == Sessions(infile, Len(infile))
       IN  /\ S.exact
           /\ \E c \in S.closed :
                 /\ c.exit = Len(infile)
                 /\ Sessions(infile, c.entry).removed # 0
                 /\ origin[Len(origin)] = c.exit
                 /\ outfile[Len(outfile)].ts = infile[c.entry].ts - Sessions(infile, c.entry).removed
                 /\ outfile[Len(outfile)].ts # infile[c.exit].ts
\* C13: an "o" record with a cursor-position sequence and "Atuin", read
\* while not skipping, is not written; skip_mode becomes true,
\* target_pattern and skip_start_time are set, and last_timestamp and
\* time_offset are left unchanged.
C13_EntryChangesOnlySkipState ==
    [][(/\ ReadsRecord
        /\ ~skip_mode
        /\ LineRead'.kind = "o"
        /\ HasCursorAndAtuin(Chars(LineRead'.text))) =>
           /\ Written = <<>>
           /\ skip_mode'
           /\ target_pattern' # <<>>
           /\ skip_start_time' = <<LineRead'.ts>>
           /\ last_timestamp' = last_timestamp
           /\ time_offset' = time_offset
           /\ pc' = pc]_vars

\* A second session has begun, at a record later than the last one
\* written, and nothing was written for it.
C13_Witness ==
    /\ feed = "window"
    /\ skip_mode
    /\ time_offset # 0
    /\ Len(infile) = 1 /\ infile[1].kind = "o"
    /\ HasCursorAndAtuin(Chars(infile[1].text))
    /\ skip_start_time = <<infile[1].ts>>
    /\ target_pattern = TargetOf(ansi_search(Chars(infile[1].text)))
    /\ infile[1].ts - time_offset > last_timestamp
    /\ outfile = <<>>
\* C14: while skipping, an "o" record whose text does not contain the
\* awaited target is not written and changes no state, also when its text
\* has a cursor-position sequence and "Atuin": target_pattern and
\* skip_start_time stay those of the record that began the session.
C14_DroppedWithoutChange ==
    [][(/\ ReadsRecord
        /\ skip_mode
        /\ LineRead'.kind = "o"
        /\ ~Contains(target_pattern, Chars(LineRead'.text))) =>
           /\ Written = <<>>
           /\ scan' = scan
           /\ pc' = pc
           /\ is_first_line' = is_first_line]_vars

\* A record with a cursor-position sequence and "Atuin" that would await
\* another target was dropped in a session, which awaits its own target.
C14_Witness ==
    /\ feed = "window"
    /\ skip_mode
    /\ Len(infile) = 1 /\ infile[1].kind = "o"
    /\ HasCursorAndAtuin(Chars(infile[1].text))
    /\ target_pattern # TargetOf(ansi_search(Chars(infile[1].text)))
    /\ skip_start_time # <<infile[1].ts>>
    /\ outfile = <<>>

\* C15: while skipping, an "o" record whose text contains the awaited
\* target is written, adds (t - skip_start_time) to time_offset and leaves
\* the filter not skipping, also when its text has a cursor-position
\* sequence and "Atuin": it begins no session.
C15_ExitWrittenAndLeaves ==
    [][(/\ ReadsRecord
        /\ skip_mode
        /\ LineRead'.kind = "o"
        /\ Contains(target_pattern, Chars(LineRead'.text))) =>
           /\ Len(Written) = 1
           /\ Written[1].kind = "o"
           /\ Written[1].text = LineRead'.text
           /\ ~skip_mode'
           /\ time_offset' = Round(time_offset + Round(LineRead'.ts - skip_start_time[1]))
           /\ target_pattern' = target_pattern
           /\ skip_start_time' = skip_start_time
           /\ pc' = pc]_vars

\* An exit record with a cursor-position sequence and "Atuin" was written
\* and the filter is not skipping.
C15_Witness ==
    /\ feed = "window"
    /\ ~skip_mode
    /\ nread >= 3
    /\ Len(infile) = 1 /\ infile[1].kind = "o"
    /\ HasCursorAndAtuin(Chars(infile[1].text))
    /\ Contains(target_pattern, Chars(infile[1].text))
    /\ Len(outfile) = 1 /\ outfile[1].text = infile[1].text
    /\ time_offset # 0
\* Position i of the text begins ESC [ a digits ; b digits H.
CursorAt(text, i, a, b) ==
    /\ a >= 1 /\ b >= 1
    /\ i + a + b + 3 <= Len(text)
    /\ text[i] = ESC /\ text[i + 1] = "["
    /\ \A k \in (i + 2)..(i + 1 + a) : IsDigit(text[k])
    /\ text[i + 2 + a] = ";"
    /\ \A k \in (i + 3 + a)..(i + 2 + a + b) : IsDigit(text[k])
    /\ text[i + 3 + a + b] = "H"

\* The first cursor-position sequence of the text: where it begins and how
\* many digits its row and its column have.
FirstCursor(text) ==
    CHOOSE m \in (1..Len(text)) \X (1..Len(text)) \X (1..Len(text)) :
        /\ CursorAt(text, m[1], m[2], m[3])
        /\ \A j \in 1..(m[1] - 1), a, b \in 1..Len(text) : ~CursorAt(text, j, a, b)

\* ESC[ROW;(COL-1)H for the first cursor-position sequence ESC[ROW;COLH of
\* the text, ROW as written and COL-1 in decimal.
ExpectedTarget(text) ==
    LET m == FirstCursor(text)
        row == SubSeq(text, m[1] + 2, m[1] + 1 + m[2])
        col == SubSeq(text, m[1] + 3 + m[2], m[1] + 2 + m[2] + m[3])
    IN  <<ESC, "[">> \o row \o <<";">> \o FormatInt(ParseInt(col) - 1) \o <<"H">>

\* C16: the target a session awaits is ESC[ROW;(COL-1)H for the first
\* cursor-position sequence ESC[ROW;COLH of its entry record's text, ROW
\* as written, whatever sequences follow it in that text; and an "o" record
\* read in the session ends it exactly when its text contains that target.
C16_TargetFromFirstCursor ==
    [][/\ (ReadsRecord /\ ~skip_mode /\ skip_mode') =>
             target_pattern' = ExpectedTarget(Chars(LineRead'.text))
       /\ (ReadsRecord /\ skip_mode /\ LineRead'.kind = "o") =>
             (~skip_mode' <=>
                  Contains(ExpectedTarget(Chars(at_entry.text)), Chars(LineRead'.text)))]_vars

\* A session begun at a text with a zero-padded row and column has dropped
\* a record with the row rewritten and has ended at the record with the
\* row as written and the column less one.
C16_Witness ==
    /\ feed = "texts"
    /\ ~skip_mode
    /\ Len(infile) = 4
    /\ infile[2].kind = "o" /\ infile[2].text = LeadingZeros
    /\ infile[3].kind = "o" /\ infile[3].text = GoTo29
    /\ infile[4].kind = "o" /\ infile[4].text = GoTo029
    /\ target_pattern = <<ESC, "[", "0", "2", ";", "9", "H">>
    /\ origin = <<1, 4>>
\* The text has a cursor-position sequence with "Atuin" somewhere after it.
CursorThenAtuin(text) ==
    \E i, a, b \in 1..Len(text) :
        /\ CursorAt(text, i, a, b)
        /\ Contains(<<"A", "t", "u", "i", "n">>, SubSeq(text, i + a + b + 4, Len(text)))

\* C17: an "o" record read while not skipping begins a session only if
\* its text has a cursor-position sequence followed later by "Atuin"; any
\* other text, one with "Atuin" only before the sequence included, begins
\* no session and is written.
C17_EntryOnlyWhenAtuinFollows ==
    [][(ReadsRecord /\ ~skip_mode /\ LineRead'.kind = "o") =>
           /\ skip_mode' => CursorThenAtuin(Chars(LineRead'.text))
           /\ ~CursorThenAtuin(Chars(LineRead'.text)) =>
                 (~skip_mode' /\ Len(Written) = 1 /\ Written[1].text = LineRead'.text)]_vars
\* C18: while the target of the session begun last has not appeared, the
\* session stays open: no "o" record from its entry record on is written,
\* every pass-through line is, time_offset and last_timestamp are as they
\* were at entry, and the run goes on to the end of the input without an
\* exception, skip_mode true.
C18_OpenSessionStaysOpen ==
    feed # "window" =>
        LET S == Sessions(infile, Len(infile))
        IN  S.open =>
                /\ skip_mode
                /\ pc # "raised"
                /\ \A j \in S.entry..Len(infile) :
                      /\ IsOArray(infile[j]) => j \notin Range(origin)
                      /\ IsPassThroughLine(infile[j]) =>
                            \E k \in 1..Len(outfile) :
                                origin[k] = j /\ outfile[k] = infile[j]
                /\ time_offset = at_entry.offset
                /\ last_timestamp = at_entry.last
                /\ at_entry.ts = infile[S.entry].ts
\* C11: with an argument count other than 2, or an input file that does
\* not exist, the script exits with status 1 and neither file is ever
\* opened, so the output file is not created or truncated; "Processed" is
\* printed and the status is 0 only after process_file has read the input
\* to its end and written all its output.
C11_RejectedWithoutFileIO ==
    /\ (argv_len # 3 \/ ~input_exists) =>
          /\ ~output_opened
          /\ pc = "idle" /\ nread = 0 /\ outfile = <<>>
          /\ exit_status \in {<<>>, <<1>>}
          /\ main_pc = "exited" => exit_status = <<1>>
          /\ "processed" \notin Range(stdout)
    /\ (exit_status = <<0>> \/ "processed" \in Range(stdout)) =>
          /\ exit_status = <<0>> /\ stdout = <<"processed">>
          /\ pc = "done"
          /\ output_opened
          /\ outfile = Output(infile)

\* The script was given two arguments, the first naming no file, and has
\* exited with status 1 after the error message, no file opened.
C11_Witness ==
    /\ main_pc = "exited"
    /\ argv_len = 3 /\ ~input_exists
    /\ exit_status = <<1>>
    /\ stdout = <<"error">>
    /\ ~output_opened
    /\ pc = "idle"
====
